---- MODULE Spec2Model ----
(***************************************************************************)
(* Model of flojoy/flojoy_cloud.py: the per-kind pydantic models, the      *)
(* read-side check_deserialize, and FlojoyCloud.create_payload, store_dc,  *)
(* fetch_dc and to_python.                                                 *)
(*                                                                         *)
(* Python values are encoded as records of one uniform shape               *)
(*     [t, n, rows, planes, names]                                         *)
(* t      the Python type ("int", "list", "ndarray", "DataFrame", ...)     *)
(* n      the number held by a scalar; the depth (1, 2, 3) of a list or    *)
(*        ndarray; the id of a string; the mode (3 RGB, 4 RGBA) of a PIL   *)
(*        image                                                            *)
(* rows   the cells of a list/array of depth 1 (one row) or 2 (its rows),  *)
(*        and the columns of a dict-table or DataFrame                     *)
(* planes the channel planes of a depth-3 array: planes[k+1] is            *)
(*        array[:, :, k]                                                   *)
(* names  the keys of a dict-table, the column labels of a DataFrame       *)
(* A cell is an integer: c >= 0 is the number c, NaN is a missing cell,    *)
(* StrCell is a cell holding a (non-numeric) string, ObjCell a cell       *)
(* holding a nested list.                                                  *)
(***************************************************************************)
EXTENDS Integers, Sequences, FiniteSets, TLC

\* ---------------------------------------------------------------- bounds
MaxNum == 2
MaxLen == 2

\* ---------------------------------------------------------------- values
NaN == 0 - 1
StrCell == 0 - 2
ObjCell == 0 - 3
Uint8 == 256

V(t, n, rows, planes, names) ==
    [t |-> t, n |-> n, rows |-> rows, planes |-> planes, names |-> names]

Absent == V("absent", 0, <<>>, <<>>, <<>>)
PyNone == V("none", 0, <<>>, <<>>, <<>>)
\* the number that stands for an int too large for a float (10**400, say)
Huge == 10 ^ 9
PyInt(k) == V("int", k, <<>>, <<>>, <<>>)
PyFloat(k) == V("float", k, <<>>, <<>>, <<>>)
PyBool(k) == V("bool", k, <<>>, <<>>, <<>>)
NpInt(k) == V("np.integer", k, <<>>, <<>>, <<>>)
NpFloat(k) == V("np.floating", k, <<>>, <<>>, <<>>)
\* string ids: 0 is the text "notanumber", 1 + k is the decimal text of k
NotANumber == V("str", 0, <<>>, <<>>, <<>>)
NumText(k) == V("str", 1 + k, <<>>, <<>>, <<>>)
\* the text DataFrame.to_json() writes for a table: a string carrying the table
JsonText(names, cols) == V("str", -1, cols, <<>>, names)
List1(row) == V("list", 1, <<row>>, <<>>, <<>>)
List2(rows) == V("list", 2, rows, <<>>, <<>>)
List3(planes) == V("list", 3, <<>>, planes, <<>>)
Array1(row) == V("ndarray", 1, <<row>>, <<>>, <<>>)
Array2(rows) == V("ndarray", 2, rows, <<>>, <<>>)
Array3(planes) == V("ndarray", 3, <<>>, planes, <<>>)
PySet == V("set", 0, <<>>, <<>>, <<>>)
\* a dict used as a column-oriented table {name: {index: cell}}
DictTable(names, cols) == V("dict", 2, cols, <<>>, names)
\* a dict of scalars {name: cell}
DictScalars(names, cells) == V("dict", 1, <<cells>>, <<>>, names)
DataFrame(names, cols) == V("DataFrame", 2, cols, <<>>, names)
PILImage(mode, planes) == V("Image", mode, <<>>, planes, <<>>)
\* the native argument is a dict with the keys x, y, z: its entries live in
\* the mapping part of the argument
Mapping == V("mapping", 0, <<>>, <<>>, <<>>)

\* ------------------------------------------------- JSON objects (dicts)
Kinds ==
    {"OrderedPair", "OrderedTriple", "DataFrame", "Matrix", "Grayscale",
     "Scalar", "Image"}

Keys == {"x", "y", "z", "m", "c", "r", "g", "b", "a"}

\* the "type" entry of a dict that has no "type" key
NoType == "<no type key>"

\* a decoded JSON object with the keys the code reads; an Absent entry is a
\* key the object does not have
EmptyDC ==
    [type |-> NoType, x |-> Absent, y |-> Absent, z |-> Absent, m |-> Absent,
     c |-> Absent, r |-> Absent, g |-> Absent, b |-> Absent, a |-> Absent]

Has(dc, k) == dc[k].t # "absent"

\* a native argument: a plain value, or a dict with entries x, y, z
Plain(v) == [val |-> v, x |-> Absent, y |-> Absent, z |-> Absent]
Dict(x, y, z) == [val |-> Mapping, x |-> x, y |-> y, z |-> z]

\* isinstance(data, dict)
IsDict(data) == data.val.t \in {"mapping", "dict"}
\* key in data
InData(data, k) == data.val.t = "mapping" /\ data[k].t # "absent"

\* ------------------------------------------------------- NumpyEncoder
\* json.dumps(..., cls=NumpyEncoder) accepts what json accepts natively plus
\* np.integer, np.floating and np.ndarray; anything else reaches
\* JSONEncoder.default, which raises TypeError
Serializable(v) ==
    v.t \in {"none", "bool", "int", "float", "str", "list", "dict",
             "np.integer", "np.floating", "ndarray"}

\* the value json.loads reads back from what the encoder wrote for v
Encoded(v) ==
    CASE v.t = "np.integer" -> PyInt(v.n)
      [] v.t = "np.floating" -> PyFloat(v.n)
      [] v.t = "ndarray" -> V("list", v.n, v.rows, v.planes, <<>>)
      [] OTHER -> v

\* ----------------------------------------------------- create_payload
\* variant: the list accepts a kind that no case of the match handles
valid_types_with_unknown ==
    {"OrderedPair", "OrderedTriple", "DataFrame", "Grayscale", "Matrix",
     "Scalar", "Image", "UnknownKind"}

valid_types ==
    {"OrderedPair", "OrderedTriple", "DataFrame", "Grayscale", "Matrix",
     "Scalar", "Image"}

\* outcome of create_payload: status "ok" (payload returned), "raise"
\* (err raised to the caller) or "unbound" (no branch assigned payload);
\* said: the explicit shape message was printed; encoded: json.dumps ran
Built(dc) ==
    [status |-> "ok", err |-> "", payload |-> dc, said |-> FALSE,
     encoded |-> TRUE]
Failed(err, said, encoded) ==
    [status |-> "raise", err |-> err, payload |-> EmptyDC, said |-> said,
     encoded |-> encoded]
Unbound ==
    [status |-> "unbound", err |-> "", payload |-> EmptyDC, said |-> FALSE,
     encoded |-> FALSE]

OrderedPairPayload(data) ==
    IF IsDict(data) /\ InData(data, "x")
    THEN IF ~InData(data, "y")
         THEN Failed("KeyError", FALSE, FALSE)
         ELSE IF ~(Serializable(data.x) /\ Serializable(data.y))
              THEN Failed("TypeError", FALSE, TRUE)
              ELSE Built([EmptyDC EXCEPT !.type = "OrderedPair",
                                         !.x = Encoded(data.x),
                                         !.y = Encoded(data.y)])
    ELSE Failed("TypeError", TRUE, FALSE)

OrderedTriplePayload(data) ==
    IF IsDict(data) /\ InData(data, "x")
    THEN IF ~(InData(data, "y") /\ InData(data, "z"))
         THEN Failed("KeyError", FALSE, FALSE)
         ELSE IF ~(Serializable(data.x) /\ Serializable(data.y)
                   /\ Serializable(data.z))
              THEN Failed("TypeError", FALSE, TRUE)
              ELSE Built([EmptyDC EXCEPT !.type = "OrderedTriple",
                                         !.x = Encoded(data.x),
                                         !.y = Encoded(data.y),
                                         !.z = Encoded(data.z)])
    ELSE Failed("TypeError", TRUE, FALSE)

\* variant: the table is handed on as a dict (to_dict) instead of as text
to_dict(v) == DictTable(v.names, v.rows)

\* data.to_json(): a DataFrame writes its table as JSON text, a str
to_json(v) == JsonText(v.names, v.rows)

DataFramePayload(data) ==
    IF data.val.t # "DataFrame"
    THEN Failed("AttributeError", FALSE, FALSE)
    ELSE Built([EmptyDC EXCEPT !.type = "DataFrame", !.m = to_json(data.val)])

FieldPayload(data, kind, key) ==
    IF ~Serializable(data.val)
    THEN Failed("TypeError", FALSE, TRUE)
    ELSE Built([EmptyDC EXCEPT !.type = kind, ![key] = Encoded(data.val)])

\* np.asarray(data): a PIL image and a nested list become arrays
asarray(v) ==
    CASE v.t = "Image" -> Array3(v.planes)
      [] v.t = "list" -> V("ndarray", v.n, v.rows, v.planes, <<>>)
      [] OTHER -> v

\* RGB_img[:, :, k]
Channel(img, k) == Array2(img.planes[k + 1])

AlphaChannel(img) ==
    IF Len(img.planes) = 4 THEN Channel(img, 3) ELSE PyNone

ImagePayload(data) ==
    LET RGB_img == asarray(data.val)
    IN IF ~(RGB_img.t = "ndarray" /\ RGB_img.n = 3 /\ Len(RGB_img.planes) >= 3)
       THEN Failed("IndexError", FALSE, FALSE)
       ELSE Built([EmptyDC EXCEPT !.type = "Image",
                                  !.r = Encoded(Channel(RGB_img, 0)),
                                  !.g = Encoded(Channel(RGB_img, 1)),
                                  !.b = Encoded(Channel(RGB_img, 2)),
                                  !.a = Encoded(AlphaChannel(RGB_img))])

\* the first match statement: only "OrderedPair" has a case
FirstMatch(data, dc_type) ==
    IF dc_type = "OrderedPair" THEN OrderedPairPayload(data) ELSE Unbound

\* the second match statement: no case for "OrderedPair", payload is kept
SecondMatch(data, dc_type, before) ==
    CASE dc_type = "OrderedTriple" -> OrderedTriplePayload(data)
      [] dc_type = "DataFrame" -> DataFramePayload(data)
      [] dc_type = "Matrix" -> FieldPayload(data, "Matrix", "m")
      [] dc_type = "Grayscale" -> FieldPayload(data, "Grayscale", "m")
      [] dc_type = "Scalar" -> FieldPayload(data, "Scalar", "c")
      [] dc_type = "Image" -> ImagePayload(data)
      [] OTHER -> before

create_payload(data, dc_type) ==
    IF dc_type \notin valid_types
    THEN Failed("AssertionError", FALSE, FALSE)
    ELSE LET first == FirstMatch(data, dc_type)
         IN IF first.status = "raise"
            THEN first
            ELSE LET second == SecondMatch(data, dc_type, first)
                 IN IF second.status = "unbound"
                    THEN Failed("UnboundLocalError", FALSE, FALSE)
                    ELSE second

\* ----------------------------------------------------- pydantic models
\* a decoded response: container says whether the "dataContainer" key is
\* there and holds a dict ("dict"), holds null ("null") or is missing;
\* envelope says whether ref, metadata, workspaceId, privacy, location and
\* note are all there with the types DefaultModel declares
Response(container, dc, envelope) ==
    [container |-> container, dataContainer |-> dc, envelope |-> envelope]

\* the keys each model's keys_must_match asserts, in the order it asserts them
Required(kind) ==
    CASE kind = "OrderedPair" -> <<"x", "y">>
      [] kind = "OrderedTriple" -> <<"x", "y", "z">>
      [] kind = "DataFrame" -> <<"m">>
      [] kind = "Matrix" -> <<"m">>
      [] kind = "Grayscale" -> <<"m">>
      [] kind = "Scalar" -> <<"c">>
      [] kind = "Image" -> <<"r", "g", "b">>

\* variant: the Scalar model accepts a str as well
IsInstance_str_scalar(kind, v) ==
    CASE kind = "DataFrame" -> v.t = "dict"
      [] kind = "Scalar" -> v.t \in {"float", "int", "bool", "str"}
      [] OTHER -> v.t = "list"

\* the isinstance test each model applies to its keys; bool is a subclass of
\* int in Python
IsInstance(kind, v) ==
    CASE kind = "DataFrame" -> v.t = "dict"
      [] kind = "Scalar" -> v.t \in {"float", "int", "bool"}
      [] OTHER -> v.t = "list"

\* outcome of one validator: "" when every assert passes, else the kind of
\* the first assert that fails and the key its message names
Passed == [fail |-> "", key |-> ""]
Violation(fail, key) == [fail |-> fail, key |-> key]

type_must_match(kind, dc) ==
    IF dc.type = kind THEN Passed ELSE Violation("type", "type")

keys_must_match(kind, dc) ==
    LET req == Required(kind)
        missing == {i \in 1..Len(req) : ~Has(dc, req[i])}
        wrong == {i \in 1..Len(req) : ~IsInstance(kind, dc[req[i]])}
        least(S) == CHOOSE i \in S : \A j \in S : i <= j
    IN IF missing # {}
       THEN Violation("missing", req[least(missing)])
       ELSE IF wrong # {}
            THEN Violation("shape", req[least(wrong)])
            ELSE Passed

\* variant: keys_must_match runs before type_must_match
ValidateContainer_keys_first(kind, dc) ==
    LET first == keys_must_match(kind, dc)
    IN IF first.fail # "" THEN first ELSE type_must_match(kind, dc)

\* the validators of the dataContainer field run in definition order and the
\* first failure ends the field's validation
ValidateContainer(kind, dc) ==
    LET first == type_must_match(kind, dc)
    IN IF first.fail # "" THEN first ELSE keys_must_match(kind, dc)

\* Model.parse_obj(response) for the model of `kind`: outcome "valid",
\* "invalid" (ValidationError carrying the container failure and whether
\* envelope fields failed) or "raise" (an error that is no ValidationError)
Parsed(outcome, err, failure, envelope) ==
    [outcome |-> outcome, err |-> err, fail |-> failure.fail,
     key |-> failure.key, envelope |-> envelope]

parse_obj(kind, response) ==
    CASE response.container = "missing" ->
             Parsed("invalid", "ValidationError",
                    Violation("field", "dataContainer"), response.envelope)
      [] response.container = "null" ->
             Parsed("invalid", "ValidationError",
                    Violation("field", "dataContainer"), response.envelope)
      [] response.dataContainer.type = NoType ->
             Parsed("raise", "KeyError", Passed, response.envelope)
      [] OTHER ->
             LET failure == ValidateContainer(kind, response.dataContainer)
             IN IF failure.fail = "" /\ response.envelope
                THEN Parsed("valid", "", Passed, TRUE)
                ELSE Parsed("invalid", "ValidationError", failure,
                            response.envelope)

\* ---------------------------------------------------- check_deserialize
\* outcome: status "ok" (returned) or "raise"; printed is the
\* ValidationError the except clause printed, or Quiet
Quiet == [fail |-> "", key |-> "", envelope |-> TRUE]
Checked(status, err, printed) ==
    [status |-> status, err |-> err, printed |-> printed]

check_deserialize(response) ==
    CASE response.container = "missing" -> Checked("raise", "KeyError", Quiet)
      [] response.container = "null" -> Checked("raise", "TypeError", Quiet)
      [] response.dataContainer.type = NoType ->
             Checked("raise", "KeyError", Quiet)
      [] response.dataContainer.type \in Kinds ->
             LET p == parse_obj(response.dataContainer.type, response)
             IN CASE p.outcome = "valid" -> Checked("ok", "", Quiet)
                  [] p.outcome = "invalid" ->
                         Checked("ok", "",
                                 [fail |-> p.fail, key |-> p.key,
                                  envelope |-> p.envelope])
                  [] OTHER -> Checked("raise", p.err, Quiet)
      [] OTHER -> Checked("ok", "", Quiet)

\* ------------------------------------------------------------ to_python
\* outcome of to_python: "ok" (value returned), "none" (fell through every
\* case: None returned) or "raise"
Returned(v) == [status |-> "ok", err |-> "", value |-> v]
Nothing == [status |-> "none", err |-> "", value |-> PyNone]
Raised(err) == [status |-> "raise", err |-> err, value |-> PyNone]

KeyOrder == <<"x", "y", "z", "m", "c", "r", "g", "b", "a">>

Max(S) == CHOOSE i \in S : \A j \in S : j <= i

\* the cell a scalar value is broadcast to
CellOf(v) ==
    CASE v.t \in {"int", "float", "bool"} -> v.n
      [] v.t = "str" -> StrCell
      [] OTHER -> NaN

\* rows to columns, short rows padded with NaN
Transpose(rows) ==
    LET w == Max({0} \cup {Len(rows[i]) : i \in 1..Len(rows)})
    IN [j \in 1..w |->
          [i \in 1..Len(rows) |->
             IF j <= Len(rows[i]) THEN rows[i][j] ELSE NaN]]

\* the default column labels "0", "1", ...
RangeNames(w) == [j \in 1..w |-> ToString(j - 1)]

SelectKeys(dc, i) ==
    IF i > Len(KeyOrder) THEN <<>>
    ELSE IF Has(dc, KeyOrder[i]) THEN <<KeyOrder[i]>> ELSE <<>>

PresentKeys(dc) ==
    SelectKeys(dc, 1) \o SelectKeys(dc, 2) \o SelectKeys(dc, 3)
    \o SelectKeys(dc, 4) \o SelectKeys(dc, 5) \o SelectKeys(dc, 6)
    \o SelectKeys(dc, 7) \o SelectKeys(dc, 8) \o SelectKeys(dc, 9)

\* pd.DataFrame(dc).drop(columns=["type"]) for a dict whose values are
\* scalars and lists: depth-1 lists are columns and must agree in length,
\* scalars (the "type" string among them) are broadcast, a dict of scalars
\* only or a nested list is refused.  Values that are dicts are not modelled.
FrameOfDict(dc) ==
    LET keys == PresentKeys(dc)
        arrays == {i \in 1..Len(keys) : dc[keys[i]].t = "list"}
        lens == {Len(dc[keys[i]].rows[1]) : i \in arrays}
        column(v, len) ==
            IF v.t = "list" THEN v.rows[1] ELSE [i \in 1..len |-> CellOf(v)]
    IN IF \E i \in arrays : dc[keys[i]].n # 1
       THEN Raised("ValueError")
       ELSE IF arrays = {} \/ Cardinality(lens) > 1
            THEN Raised("ValueError")
            ELSE LET len == CHOOSE l \in lens : TRUE
                 IN Returned(DataFrame(keys,
                        [i \in 1..Len(keys) |-> column(dc[keys[i]], len)]))

\* pd.DataFrame(m)
FrameOfValue(m) ==
    CASE m.t = "none" -> Returned(DataFrame(<<>>, <<>>))
      [] m.t = "list" /\ m.n = 1 ->
             IF m.rows[1] = <<>>
             THEN Returned(DataFrame(<<>>, <<>>))
             ELSE Returned(DataFrame(<<"0">>, m.rows))
      [] m.t = "list" /\ m.n = 2 ->
             LET cols == Transpose(m.rows)
             IN Returned(DataFrame(RangeNames(Len(cols)), cols))
      [] m.t = "list" /\ m.n = 3 ->
             LET cols == Transpose([i \in 1..Len(m.planes) |->
                            [j \in 1..Len(m.planes[i]) |-> ObjCell]])
             IN Returned(DataFrame(RangeNames(Len(cols)), cols))
      [] m.t = "dict" /\ m.n = 2 -> Returned(DataFrame(m.names, m.rows))
      [] OTHER -> Raised("ValueError")

\* variant: the Scalar case computes the float and does not return it
ToFloat_no_return(c) == Nothing

\* float(c); an int beyond the range of a float raises OverflowError
ToFloat(c) ==
    CASE c.t = "int" /\ c.n = Huge -> Raised("OverflowError")
      [] c.t \in {"int", "float", "bool"} -> Returned(PyFloat(c.n))
      [] c.t = "str" ->
             IF c.n >= 1 THEN Returned(PyFloat(c.n - 1))
             ELSE Raised("ValueError")
      [] OTHER -> Raised("TypeError")

\* the shape np.asarray gives a decoded value: <<>> for a scalar, <<n>>,
\* <<h, w>>; Ragged for a nested list whose rows differ in length
Ragged == <<0 - 1>>
ShapeOf(v) ==
    IF v.t # "list" THEN <<>>
    ELSE IF v.n = 1 THEN <<Len(v.rows[1])>>
    ELSE IF v.n = 2
         THEN IF v.rows = <<>> THEN <<0>>
              ELSE IF \E i \in 1..Len(v.rows) : Len(v.rows[i]) # Len(v.rows[1])
                   THEN Ragged
                   ELSE <<Len(v.rows), Len(v.rows[1])>>
    ELSE <<Len(v.planes), 0, 0>>

NumericCells(v) ==
    \A i \in 1..Len(v.rows) : \A j \in 1..Len(v.rows[i]) : v.rows[i][j] >= 0

\* np.uint8(plane)
AsUint8(rows) ==
    [i \in 1..Len(rows) |-> [j \in 1..Len(rows[i]) |-> rows[i][j] % Uint8]]

\* Image.fromarray(np.uint8(np.stack(parts, axis=2))).convert(mode): the
\* parts must be arrays of one shape, 2-dimensional and non-empty, of numbers
StackImage(parts) ==
    LET shapes == {ShapeOf(parts[k]) : k \in 1..Len(parts)}
    IN IF Cardinality(shapes) > 1 \/ Ragged \in shapes
       THEN Raised("ValueError")
       ELSE LET shape == CHOOSE sh \in shapes : TRUE
            IN IF Len(shape) < 2
               THEN Raised("AxisError")
               ELSE IF Len(shape) > 2
               THEN Raised("TypeError")
               ELSE IF shape[1] = 0 \/ shape[2] = 0
                       \/ \E k \in 1..Len(parts) : ~NumericCells(parts[k])
               THEN Raised("ValueError")
               ELSE Returned(PILImage(Len(parts),
                        [k \in 1..Len(parts) |-> AsUint8(parts[k].rows)]))

to_python(dc) ==
    CASE dc.container = "missing" -> Raised("KeyError")
      [] dc.container = "null" -> Raised("TypeError")
      [] dc.dataContainer.type = NoType -> Raised("KeyError")
      [] dc.dataContainer.type \in {"OrderedPair", "OrderedTriple"} ->
             LET df == FrameOfDict(dc.dataContainer)
             IN df
      [] dc.dataContainer.type \in {"DataFrame", "Matrix", "Grayscale"} ->
             IF ~Has(dc.dataContainer, "m") THEN Raised("KeyError")
             ELSE FrameOfValue(dc.dataContainer.m)
      [] dc.dataContainer.type = "Scalar" ->
             IF ~Has(dc.dataContainer, "c") THEN Raised("KeyError")
             ELSE ToFloat(dc.dataContainer.c)
      [] dc.dataContainer.type = "Image" ->
             LET image == dc.dataContainer
             IN IF ~(Has(image, "r") /\ Has(image, "g") /\ Has(image, "b"))
                THEN Raised("KeyError")
                ELSE IF Has(image, "a")
                     THEN StackImage(<<image.r, image.g, image.b, image.a>>)
                     ELSE StackImage(<<image.r, image.g, image.b>>)
      [] OTHER -> Nothing

\* ------------------------------------------------------- sample inputs
Nums == 0..MaxNum

\* the row a, a+1, ... of length k (numbers wrap at MaxNum)
Ramp(k, a) == [i \in 1..k |-> (a + i - 1) % (MaxNum + 1)]

Rows == {Ramp(k, 0) : k \in 0..MaxLen} \cup {Ramp(MaxLen, a) : a \in Nums}

\* an h x w table whose rows are ramps
Mat(h, w, a) == [i \in 1..h |-> Ramp(w, a + i - 1)]

Mats ==
    {Mat(h, w, a) : h \in {1, MaxLen}, w \in {1, MaxLen}, a \in Nums}
    \cup {<<Ramp(MaxLen, 0), Ramp(MaxLen - 1, 0)>>}

\* c channel planes of one h x w shape, pairwise different
Planes(c, h, w) == [k \in 1..c |-> Mat(h, w, k - 1)]

Tables ==
    {<<<<"c0">>, <<Ramp(MaxLen, 0)>>>>,
     <<<<"c0", "c1">>, <<Ramp(MaxLen, 0), Ramp(MaxLen, 1)>>>>,
     <<<<>>, <<>>>>}

PlainValues ==
    {PyNone, PyBool(1), NotANumber, NumText(MaxNum), PySet}
    \cup {PyInt(a) : a \in Nums} \cup {PyFloat(a) : a \in Nums}
    \cup {NpInt(a) : a \in Nums} \cup {NpFloat(a) : a \in Nums}
    \cup {List1(r) : r \in Rows} \cup {Array1(r) : r \in Rows}
    \cup {List1(<<StrCell>>)}
    \cup {List2(m) : m \in Mats} \cup {Array2(m) : m \in Mats}
    \cup {Array3(Planes(c, h, MaxLen)) : c \in 1..5, h \in {1, MaxLen}}
    \cup {List3(Planes(c, MaxLen, MaxLen)) : c \in {3, 4}}
    \cup {PILImage(c, Planes(c, MaxLen, MaxLen)) : c \in {3, 4}}
    \cup {DataFrame(t[1], t[2]) : t \in Tables}
    \cup {DictTable(t[1], t[2]) : t \in Tables}

\* the entries a native dict may hold under x, y, z
Entries ==
    {Absent, PyInt(0), PySet, List1(<<StrCell>>)}
    \cup {List1(r) : r \in Rows} \cup {Array1(Ramp(MaxLen, 0))}

NativeValues ==
    {Plain(v) : v \in PlainValues}
    \cup {Dict(x, y, z) : x \in Entries, y \in Entries, z \in Entries}

KindArgs == Kinds \cup {"UnknownKind", "orderedpair"}

\* what a decoded dataContainer may hold under x, y, z
Columns ==
    {Absent, PyInt(0), NotANumber, List1(<<StrCell>>)}
    \cup {List1(r) : r \in Rows}

Cells2 ==
    {Absent, PyNone, PyInt(0), NotANumber, List1(<<>>), List1(Ramp(MaxLen, 0)),
     List3(Planes(3, 1, 1)), DictScalars(<<"c0">>, <<0>>),
     JsonText(<<"c0">>, <<Ramp(MaxLen, 0)>>)}
    \cup {List2(m) : m \in Mats}
    \cup {DictTable(t[1], t[2]) : t \in Tables}

Scalars ==
    {Absent, PyNone, PyBool(1), NotANumber, NumText(MaxNum), List1(<<0>>),
     PyInt(Huge)}
    \cup {PyInt(a) : a \in Nums} \cup {PyFloat(a) : a \in Nums}

\* a well-formed plane, and what may stand in its place
GoodPlane(k) == List2(Mat(MaxLen, MaxLen, k))
PlaneDefects ==
    {Absent, PyNone, PyInt(0), List1(Ramp(MaxLen, 0)), List2(Mat(1, 1, 0)),
     List2(<<<<StrCell>>>>), List2(Mat(MaxLen, MaxLen, MaxNum))}

ImageFields ==
    LET rgb == [EmptyDC EXCEPT !.r = GoodPlane(0), !.g = GoodPlane(1),
                               !.b = GoodPlane(2)]
        rgba == [rgb EXCEPT !.a = GoodPlane(3)]
    IN {rgb, rgba}
       \cup {[base EXCEPT ![k] = p] :
                base \in {rgb, rgba}, k \in {"r", "g", "b", "a"},
                p \in PlaneDefects}

\* the fields of a decoded dataContainer, before its type tag is set
Fields ==
    {[EmptyDC EXCEPT !.x = x, !.y = y] : x \in Columns, y \in Columns}
    \cup {[EmptyDC EXCEPT !.x = x, !.y = y, !.z = z] :
             x \in Columns, y \in Columns, z \in Columns \ {Absent}}
    \cup {[EmptyDC EXCEPT !.m = m] : m \in Cells2}
    \cup {[EmptyDC EXCEPT !.c = c] : c \in Scalars}
    \cup ImageFields

Tags == Kinds \cup {"UnknownKind", NoType}

Containers == {[f EXCEPT !.type = t] : f \in Fields, t \in Tags}

Responses ==
    {Response("dict", dc, e) : dc \in Containers, e \in BOOLEAN}
    \cup {Response("missing", EmptyDC, e) : e \in BOOLEAN}
    \cup {Response("null", EmptyDC, e) : e \in BOOLEAN}

\* what the service answers a POST with
Replies == {Response("missing", EmptyDC, FALSE),
            Response("dict", [EmptyDC EXCEPT !.type = "Scalar", !.c = PyInt(0)],
                     TRUE)}

\* ---------------------------------------------------------------- state
VARIABLES
    op,        \* the call that ran last
    dc_type,   \* its kind argument
    data,      \* its native-value argument
    response,  \* the decoded response / container it worked on
    src,       \* where to_python's container came from
    status,    \* how the call ended
    err,       \* the error it raised
    payload,   \* the "data" object of the payload create_payload built
    said,      \* create_payload printed its explicit shape message
    encoded,   \* create_payload reached json.dumps
    wire,      \* the request the call handed to the transport
    report,    \* the validation failure found (parse_obj) or printed (fetch_dc)
    value,     \* the native value to_python returned
    returned   \* the decoded response store_dc / fetch_dc returned

vars ==
    <<op, dc_type, data, response, src, status, err, payload, said, encoded,
      wire, report, value, returned>>

NoData == Plain(Absent)
\* no response at all (the call returned none, or took none)
NoResponse == Response("", EmptyDC, FALSE)
NoRequest == [sent |-> FALSE, method |-> "", body |-> EmptyDC]
Request(method, body) == [sent |-> TRUE, method |-> method, body |-> body]

Init ==
    /\ op = "init"
    /\ dc_type = ""
    /\ data = NoData
    /\ response = NoResponse
    /\ src = ""
    /\ status = ""
    /\ err = ""
    /\ payload = EmptyDC
    /\ said = FALSE
    /\ encoded = FALSE
    /\ wire = NoRequest
    /\ report = Quiet
    /\ value = PyNone
    /\ returned = NoResponse

\* kinds whose branch reads data as a whole take a plain value
Fits(d, kind) == kind \in {"OrderedPair", "OrderedTriple"} \/ kind \notin Kinds
                 \/ d.val.t # "mapping"

\* The client keeps nothing between calls (headers and valid_types are set
\* once by __init__), so a call starts from the idle client and Return
\* drops what the call left behind.
Idle == op = "init"

CreatePayload ==
    /\ Idle
    /\ \E d \in NativeValues, kind \in KindArgs :
        /\ Fits(d, kind)
        /\ LET built == create_payload(d, kind)
           IN /\ op' = "create_payload"
              /\ dc_type' = kind
              /\ data' = d
              /\ status' = built.status
              /\ err' = built.err
              /\ payload' = built.payload
              /\ said' = built.said
              /\ encoded' = built.encoded
        /\ response' = NoResponse
        /\ src' = ""
        /\ wire' = NoRequest
        /\ report' = Quiet
        /\ value' = PyNone
        /\ returned' = NoResponse

\* store_dc: create_payload, then the POST, then the decoded reply
StoreDc ==
    /\ Idle
    /\ \E d \in NativeValues, kind \in KindArgs, reply \in Replies :
        /\ Fits(d, kind)
        /\ LET built == create_payload(d, kind)
           IN /\ op' = "store_dc"
              /\ dc_type' = kind
              /\ data' = d
              /\ status' = built.status
              /\ err' = built.err
              /\ payload' = built.payload
              /\ said' = built.said
              /\ encoded' = built.encoded
              /\ wire' = IF built.status = "ok"
                         THEN Request("POST", built.payload)
                         ELSE NoRequest
              /\ returned' = IF built.status = "ok" THEN reply ELSE NoResponse
        /\ response' = NoResponse
        /\ src' = ""
        /\ report' = Quiet
        /\ value' = PyNone

\* fetch_dc: the GET, the decoded response, check_deserialize, the return
FetchDc ==
    /\ Idle
    /\ \E r \in Responses :
        /\ LET checked == check_deserialize(r)
           IN /\ op' = "fetch_dc"
              /\ response' = r
              /\ status' = checked.status
              /\ err' = checked.err
              /\ report' = checked.printed
              /\ returned' = IF checked.status = "ok" THEN r ELSE NoResponse
        /\ wire' = Request("GET", EmptyDC)
        /\ dc_type' = ""
        /\ data' = NoData
        /\ src' = ""
        /\ payload' = EmptyDC
        /\ said' = FALSE
        /\ encoded' = FALSE
        /\ value' = PyNone

Convert(dc, from) ==
    LET out == to_python(dc)
    IN /\ op' = "to_python"
       /\ response' = dc
       /\ src' = from
       /\ status' = out.status
       /\ err' = out.err
       /\ value' = out.value
       /\ wire' = NoRequest
       /\ report' = Quiet
       /\ returned' = NoResponse

\* to_python on a container the caller holds
ToPython ==
    /\ Idle
    /\ \E dc \in Responses :
        /\ Convert(dc, "caller")
        /\ dc_type' = ""
        /\ data' = NoData
        /\ payload' = EmptyDC
        /\ said' = FALSE
        /\ encoded' = FALSE

\* to_python on the response fetch_dc has just returned
ToPythonFetched ==
    /\ op = "fetch_dc"
    /\ status = "ok"
    /\ Convert(returned, "fetched")
    /\ dc_type' = ""
    /\ data' = NoData
    /\ payload' = EmptyDC
    /\ said' = FALSE
    /\ encoded' = FALSE

\* to_python on the payload create_payload has just built: the fields of
\* its "data" object taken as the "dataContainer" of a response
ToPythonPayload ==
    /\ op = "create_payload"
    /\ status = "ok"
    /\ Convert(Response("dict", payload, TRUE), "payload")
    /\ UNCHANGED <<dc_type, data, payload, said, encoded>>

\* Model.parse_obj(response) for the model of a kind
ParseObj ==
    /\ Idle
    /\ \E kind \in Kinds, r \in Responses :
        /\ LET p == parse_obj(kind, r)
           IN /\ op' = "parse_obj"
              /\ dc_type' = kind
              /\ response' = r
              /\ status' = p.outcome
              /\ err' = p.err
              /\ report' = [fail |-> p.fail, key |-> p.key,
                            envelope |-> p.envelope]
        /\ data' = NoData
        /\ src' = ""
        /\ payload' = EmptyDC
        /\ said' = FALSE
        /\ encoded' = FALSE
        /\ wire' = NoRequest
        /\ value' = PyNone
        /\ returned' = NoResponse

\* the call is over: the client is idle again
Return ==
    /\ ~Idle
    /\ op' = "init"
    /\ dc_type' = ""
    /\ data' = NoData
    /\ response' = NoResponse
    /\ src' = ""
    /\ status' = ""
    /\ err' = ""
    /\ payload' = EmptyDC
    /\ said' = FALSE
    /\ encoded' = FALSE
    /\ wire' = NoRequest
    /\ report' = Quiet
    /\ value' = PyNone
    /\ returned' = NoResponse

Next ==
    \/ CreatePayload
    \/ StoreDc
    \/ FetchDc
    \/ ToPython
    \/ ToPythonFetched
    \/ ToPythonPayload
    \/ ParseObj
    \/ Return

Spec == Init /\ [][Next]_vars

\* =============================================================== claims
\* ---- the schema of the kind table, as the specification words it
AllNumbers(rows) ==
    \A i \in 1..Len(rows) : \A j \in 1..Len(rows[i]) : rows[i][j] >= 0

SeqOfNumbers(v) == v.t = "list" /\ v.n = 1 /\ AllNumbers(v.rows)
Seq2OfNumbers(v) == v.t = "list" /\ v.n = 2 /\ AllNumbers(v.rows)

RequiredSet(kind) ==
    CASE kind \in {"OrderedPair"} -> {"x", "y"}
      [] kind \in {"OrderedTriple"} -> {"x", "y", "z"}
      [] kind \in {"DataFrame", "Matrix", "Grayscale"} -> {"m"}
      [] kind \in {"Scalar"} -> {"c"}
      [] kind \in {"Image"} -> {"r", "g", "b"}
      [] OTHER -> {}

TableShape(kind, dc) ==
    CASE kind \in {"OrderedPair", "OrderedTriple"} ->
             \A k \in RequiredSet(kind) : SeqOfNumbers(dc[k])
      [] kind = "DataFrame" -> dc.m.t = "dict"
      [] kind \in {"Matrix", "Grayscale"} -> Seq2OfNumbers(dc.m)
      [] kind = "Scalar" -> dc.c.t \in {"int", "float"}
      [] kind = "Image" ->
             /\ \A k \in {"r", "g", "b"} :
                   Seq2OfNumbers(dc[k])
                   /\ ShapeOf(dc[k]) = ShapeOf(dc.r) /\ ShapeOf(dc[k]) # Ragged
             /\ Has(dc, "a") =>
                   Seq2OfNumbers(dc.a) /\ ShapeOf(dc.a) = ShapeOf(dc.r)
      [] OTHER -> FALSE

SchemaValid(kind, dc) ==
    /\ dc.type = kind
    /\ \A k \in RequiredSet(kind) : Has(dc, k)
    /\ TableShape(kind, dc)

\* ---- well-shaped native values of each kind
NumRow(e) == e.t \in {"list", "ndarray"} /\ e.n = 1 /\ AllNumbers(e.rows)
RowLen(e) == Len(e.rows[1])

WellShaped(d, kind) ==
    CASE kind = "OrderedPair" ->
             /\ d.val.t = "mapping"
             /\ NumRow(d.x) /\ NumRow(d.y)
             /\ RowLen(d.x) = RowLen(d.y)
      [] kind = "OrderedTriple" ->
             /\ d.val.t = "mapping"
             /\ NumRow(d.x) /\ NumRow(d.y) /\ NumRow(d.z)
             /\ RowLen(d.x) = RowLen(d.y) /\ RowLen(d.y) = RowLen(d.z)
      [] kind = "DataFrame" -> d.val.t = "DataFrame"
      [] kind \in {"Matrix", "Grayscale"} ->
             /\ d.val.t \in {"list", "ndarray"} /\ d.val.n = 2
             /\ AllNumbers(d.val.rows)
             /\ \A i \in 1..Len(d.val.rows) :
                   Len(d.val.rows[i]) = Len(d.val.rows[1])
      [] kind = "Scalar" ->
             d.val.t \in {"int", "float", "np.integer", "np.floating"}
      [] kind = "Image" ->
             /\ \/ d.val.t = "Image"
                \/ d.val.t \in {"ndarray", "list"} /\ d.val.n = 3
             /\ Len(d.val.planes) \in {3, 4}
      [] OTHER -> FALSE

\* the native value v is the native value d of the kind again
Equivalent(kind, d, v) ==
    CASE kind = "OrderedPair" ->
             v = DataFrame(<<"x", "y">>, <<d.x.rows[1], d.y.rows[1]>>)
      [] kind = "OrderedTriple" ->
             v = DataFrame(<<"x", "y", "z">>,
                           <<d.x.rows[1], d.y.rows[1], d.z.rows[1]>>)
      [] kind = "DataFrame" -> v = d.val
      [] kind \in {"Matrix", "Grayscale"} ->
             v.t = "DataFrame" /\ v.rows = Transpose(d.val.rows)
      [] kind = "Scalar" -> v.t = "float" /\ v.n = d.val.n
      [] kind = "Image" ->
             v = PILImage(Len(d.val.planes), d.val.planes)
      [] OTHER -> FALSE

\* C1: a payload that does not satisfy the schema of its kind is never
\* handed to the transport by store_dc and never turned into a native value
\* by to_python.
C1_InvalidNeverForwarded ==
    /\ (op = "store_dc" /\ wire.sent) => SchemaValid(dc_type, wire.body)
    /\ (op = "to_python" /\ status = "ok") =>
          SchemaValid(response.dataContainer.type, response.dataContainer)

\* C2: whatever decoded response the transport returns, fetch_dc returns it
\* unchanged and raises nothing.
C2_FetchAlwaysReturns ==
    op = "fetch_dc" => status = "ok" /\ returned = response

\* C3: for a kind that is not one of the seven, create_payload fails with
\* the unsupported-kind assertion before any encoding and without a
\* payload, and store_dc hands nothing to the transport.
C3_UnsupportedKindFails ==
    (op \in {"create_payload", "store_dc"} /\ dc_type \notin Kinds) =>
        /\ status = "raise"
        /\ err = "AssertionError"
        /\ ~encoded
        /\ payload = EmptyDC
        /\ ~wire.sent

C3_Witness ==
    op = "store_dc" /\ dc_type = "UnknownKind" /\ status = "raise"
    /\ data.val.t = "np.floating"

\* C4: converting the fields create_payload produced for a well-shaped
\* native value back with to_python yields an equivalent native value.
C4_RoundTrip ==
    (op = "to_python" /\ src = "payload" /\ WellShaped(data, dc_type)) =>
        status = "ok" /\ Equivalent(dc_type, data, value)

\* the keys of the payload of a kind: an alpha plane only for four channels
PayloadKeys(kind, d) ==
    IF kind = "Image" /\ Len(asarray(d.val).planes) = 4
    THEN {"r", "g", "b", "a"}
    ELSE RequiredSet(kind)

\* C5: for a native value that passes the per-kind shape checks,
\* create_payload returns an envelope whose type is the requested kind and
\* whose fields are that kind's keys with the shapes of the kind table.
C5_EnvelopeShape ==
    (op = "create_payload" /\ dc_type \in Kinds /\ WellShaped(data, dc_type))
    =>  /\ status = "ok"
        /\ payload.type = dc_type
        /\ {k \in Keys : Has(payload, k)} = PayloadKeys(dc_type, data)
        /\ SchemaValid(dc_type, payload)

\* C6: validating a container against a kind its type tag differs from
\* fails, and the tag mismatch is the violation reported, also when every
\* required key of the validated kind is present with a valid shape.
C6_TagMismatchReported ==
    (op = "parse_obj" /\ response.container = "dict"
     /\ response.dataContainer.type \notin {dc_type, NoType}) =>
        status = "invalid" /\ report.fail = "type"

C6_Witness ==
    /\ op = "parse_obj" /\ dc_type = "OrderedPair"
    /\ response.container = "dict" /\ response.envelope
    /\ response.dataContainer.type = "OrderedTriple"
    /\ SchemaValid("OrderedPair",
                   [response.dataContainer EXCEPT !.type = "OrderedPair"])
    /\ status = "invalid" /\ report.fail = "type"

\* the container type the validators test for a key of a kind
CheckedType(kind, v) ==
    CASE kind = "DataFrame" -> v.t = "dict"
      [] kind = "Scalar" -> v.t \in {"int", "float", "bool"}
      [] OTHER -> v.t = "list"

\* C7 (as claimed): with a matching tag, validation succeeds exactly when
\* every required key is present with the shape of the kind table
\* (sequences of numbers, 2D sequences of numbers, equal plane shapes, ...).
C7_TableShapes ==
    (op = "parse_obj" /\ response.container = "dict" /\ response.envelope
     /\ response.dataContainer.type = dc_type) =>
        (status = "valid" <=> SchemaValid(dc_type, response.dataContainer))

\* C7 (amended): with a matching tag and a well-formed envelope, validation
\* succeeds exactly when every required key is present and is of the
\* container type the model tests (list; dict for DataFrame; int, float or
\* bool for Scalar), elements and nesting unchecked; otherwise the first
\* missing key is reported as missing, else a key of the wrong type as a
\* shape failure.
C7_ContainerTypes ==
    (op = "parse_obj" /\ response.container = "dict" /\ response.envelope
     /\ response.dataContainer.type = dc_type) =>
        LET dc == response.dataContainer
            missing == {k \in RequiredSet(dc_type) : ~Has(dc, k)}
            wrong == {k \in RequiredSet(dc_type) :
                         Has(dc, k) /\ ~CheckedType(dc_type, dc[k])}
        IN /\ status = "valid" <=> (missing = {} /\ wrong = {})
           /\ status \in {"valid", "invalid"}
           /\ missing # {} =>
                 report.fail = "missing" /\ report.key \in missing
           /\ (missing = {} /\ wrong # {}) =>
                 report.fail = "shape" /\ report.key \in wrong

C7_Witness ==
    /\ op = "parse_obj" /\ dc_type = "Scalar"
    /\ response.container = "dict" /\ response.envelope
    /\ response.dataContainer.type = "Scalar"
    /\ response.dataContainer.c = NotANumber
    /\ status = "invalid" /\ report.fail = "shape" /\ report.key = "c"

\* C8: create_payload for OrderedPair (OrderedTriple) fails with the shape
\* error of its explicit check, and builds nothing, for every native value
\* that is not a mapping holding all of x, y (and z).
C8_ShapeErrorForIncompleteMapping ==
    LET need == RequiredSet(dc_type)
    IN (op = "create_payload" /\ dc_type \in {"OrderedPair", "OrderedTriple"}
        /\ ~(data.val.t = "mapping" /\ \A k \in need : data[k].t # "absent"))
       => (status = "raise" /\ err = "TypeError" /\ said
           /\ payload = EmptyDC)

\* every list among the entries of the container is a column of one length
Aligned(dc) ==
    \A k \in Keys : \A l \in Keys :
        (dc[k].t = "list" /\ dc[l].t = "list") =>
            /\ dc[k].n = 1 /\ dc[l].n = 1
            /\ Len(dc[k].rows[1]) = Len(dc[l].rows[1])

C10_BuildDoesNotValidate ==
    /\ (op \in {"create_payload", "store_dc"} /\ dc_type = "DataFrame"
        /\ data.val.t = "DataFrame") =>
           /\ status = "ok"
           /\ parse_obj("DataFrame",
                        Response("dict", payload, TRUE)).outcome = "invalid"
    /\ (op = "store_dc" /\ status = "ok") => wire = Request("POST", payload)

C10_Witness ==
    /\ op = "store_dc" /\ dc_type \in Kinds /\ wire.sent
    /\ parse_obj(dc_type, Response("dict", wire.body, TRUE)).outcome = "invalid"

====
